---- MODULE Spec2Model ----
(***************************************************************************)
(* Model of audiomate/processing/parallel.py: ParallelProcessor            *)
(* .process_corpus (the parent process) and                                *)
(* worker_process_utterances_task (one child process per worker), which    *)
(* communicate over one multiprocessing queue.                             *)
(*                                                                         *)
(* Utterance identifiers are 1..num_utts in the iteration order of         *)
(* corpus.utterances; list positions are 0-based as in the source.         *)
(***************************************************************************)
EXTENDS Integers, Sequences, FiniteSets, TLC

\* ---- bounds of the main model
MaxN == 3
MaxW == 3
MaxRate == 2
\* ---- bounds of the partition-only model
PMaxN == 10
PMaxW == 4

\* sr=None (the default of the sr parameter); distinct from every rate and
\* from the worker's -1 sentinel
None == -2
\* initial value of the worker's local sampling_rate
NoRateYet == -1
\* defaults of the frame_size and hop_size parameters
DefaultFrameSize == 400
DefaultHopSize == 160

Rates == 0..MaxRate

VARIABLES
    num_utts,       \* len(corpus.utterances)
    num_workers,    \* argument num_workers
    rates,          \* rates[id] = corpus.utterances[id].sampling_rate
    sr,             \* argument sr (None or a forced rate)
    frame_size,     \* argument frame_size
    hop_size,       \* argument hop_size
    pc,             \* position of process_corpus
    i,              \* index of the spawn loop
    queueCreated,   \* result_queue exists
    result_queue,   \* records put and not yet got, FIFO
    wpc,            \* wpc[w]: position of worker w
    wutts,          \* wutts[w]: worker_utts handed to worker w
    wpos,           \* wpos[w]: 0-based position of worker w in its list
    wrate,          \* wrate[w]: worker w's local sampling_rate
    emitted,        \* emitted[w]: identifiers worker w has put, in order
    failedAt,       \* failedAt[w]: identifier at which worker w raised, or 0
    calls,          \* process_utterance invocations, as <<id, sr>>
    cstate,         \* feat_container: "none", "open", "closed"
    writes,         \* the feat_container.set calls, in order, as <<id, feats>>
    meta,           \* metadata fields of the container (None = not set)
    metaSets,       \* how often each metadata field was assigned
    sampling_rate,  \* local sampling_rate of process_corpus
    collected,      \* iterations of the collect loop done
    joined          \* workers joined so far

vars == <<num_utts, num_workers, rates, sr, frame_size, hop_size, pc, i, queueCreated, result_queue,
          wpc, wutts, wpos, wrate, emitted, failedAt, calls, cstate, writes,
          meta, metaSets, sampling_rate, collected, joined>>

inputs == <<num_utts, num_workers, rates, sr, frame_size, hop_size>>
workerVars == <<wpc, wutts, wpos, wrate, emitted, failedAt, calls>>
containerVars == <<cstate, writes, meta, metaSets>>

Workers == 0..(num_workers - 1)

Min(a, b) == IF a < b THEN a ELSE b

\* list(corpus.utterances.keys())
utterance_ids == [p \in 1..num_utts |-> p]

\* Python list slice seq[a:b] for 0 <= a, 0 <= b (out-of-range ends clamp)
Slice(seq, a, b) == SubSeq(seq, Min(a, Len(seq)) + 1, Min(b, Len(seq)))

\* rounds the share up instead of down
utts_per_worker_ceil(n, w) == (n + w - 1) \div w

\* int(num_utts / num_workers)
utts_per_worker(n, w) == n \div w

\* starts every range but the first one position early
utt_start_index_one_early(n, w, k) ==
    IF k * utts_per_worker(n, w) = 0 THEN 0 ELSE k * utts_per_worker(n, w) - 1

utt_start_index(n, w, k) == k * utts_per_worker(n, w)

\* forgets to hand the remainder to the last worker
utt_end_index_no_remainder(n, w, k) == (k + 1) * utts_per_worker(n, w)

\* lets a range run one position into the next one
utt_end_index_overlap(n, w, k) ==
    IF k = w - 1 THEN n ELSE (k + 1) * utts_per_worker(n, w) + 1

utt_end_index(n, w, k) ==
    IF k = w - 1 THEN n ELSE (k + 1) * utts_per_worker(n, w)

\* worker_utts of loop iteration k
worker_utts(ids, w, k) ==
    Slice(ids, utt_start_index(Len(ids), w, k), utt_end_index(Len(ids), w, k))

\* The feature array of one utterance: determined by the utterance and the
\* rate the transform works at (the forced rate, else the item's own).
process_utterance(id, rate, forced) ==
    <<id, IF forced = None THEN rate ELSE forced>>

\* The processor's deterministic frame/hop mapping.
frame_transform(fs, hs) == <<fs \div 2, hs \div 2>>

\* Python "a or b" on numbers: a if a is truthy
PyOr(a, b) == IF a # None /\ a # 0 THEN a ELSE b

TypeInit(maxn, ws, rs, srs) ==
    /\ num_utts \in 0..maxn
    /\ num_workers \in ws
    /\ rates \in [1..num_utts -> rs]
    /\ sr \in srs
    /\ pc = "validate"
    /\ i = 0
    /\ queueCreated = FALSE
    /\ result_queue = <<>>
    /\ wpc = [w \in Workers |-> "unstarted"]
    /\ wutts = [w \in Workers |-> <<>>]
    /\ wpos = [w \in Workers |-> 0]
    /\ wrate = [w \in Workers |-> NoRateYet]
    /\ emitted = [w \in Workers |-> <<>>]
    /\ failedAt = [w \in Workers |-> 0]
    /\ calls = {}
    /\ cstate = "none"
    /\ writes = <<>>
    /\ meta = [frame_size |-> None, hop_size |-> None, sampling_rate |-> None]
    /\ metaSets = [frame_size |-> 0, hop_size |-> 0, sampling_rate |-> 0]
    /\ sampling_rate = None
    /\ collected = 0
    /\ joined = 0

\* the caller leaves frame_size and hop_size at their defaults
DefaultFrames ==
    /\ frame_size = DefaultFrameSize
    /\ hop_size = DefaultHopSize

Init == TypeInit(MaxN, 0..MaxW, Rates, {None} \cup Rates) /\ DefaultFrames

\* ---- process_corpus ----------------------------------------------------

\* accepts a single worker
Validate_one_worker ==
    /\ pc = "validate"
    /\ IF num_workers < 1
       THEN /\ pc' = "config_error"
            /\ UNCHANGED queueCreated
       ELSE /\ pc' = "spawn"
            /\ queueCreated' = TRUE
    /\ UNCHANGED <<inputs, i, result_queue, workerVars, containerVars,
                   sampling_rate, collected, joined>>

\* lines 33-41: the worker-count check, the identifier list, the queue
Validate ==
    /\ pc = "validate"
    /\ IF num_workers < 2
       THEN /\ pc' = "config_error"
            /\ UNCHANGED queueCreated
       ELSE /\ pc' = "spawn"
            /\ queueCreated' = TRUE
    /\ UNCHANGED <<inputs, i, result_queue, workerVars, containerVars,
                   sampling_rate, collected, joined>>

\* lines 46-68: one iteration of the spawn loop
Spawn ==
    /\ pc = "spawn"
    /\ i < num_workers
    /\ wutts' = [wutts EXCEPT ![i] = worker_utts(utterance_ids, num_workers, i)]
    /\ wpc' = [wpc EXCEPT ![i] = "run"]
    /\ i' = i + 1
    /\ UNCHANGED <<inputs, pc, queueCreated, result_queue, wpos, wrate,
                   emitted, failedAt, calls, containerVars, sampling_rate,
                   collected, joined>>

\* joins the workers before draining the queue
OpenContainer_join_first ==
    /\ pc = "spawn"
    /\ i = num_workers
    /\ cstate' = "open"
    /\ pc' = "join"
    /\ UNCHANGED <<inputs, i, queueCreated, result_queue, workerVars, writes,
                   meta, metaSets, sampling_rate, collected, joined>>

\* lines 72-73: the container is created and opened after the spawn loop
OpenContainer ==
    /\ pc = "spawn"
    /\ i = num_workers
    /\ cstate' = "open"
    /\ pc' = "collect"
    /\ UNCHANGED <<inputs, i, queueCreated, result_queue, workerVars, writes,
                   meta, metaSets, sampling_rate, collected, joined>>

\* gives up collecting once a worker has failed
Collect_stops_on_failure ==
    /\ pc = "collect"
    /\ collected < num_utts
    /\ result_queue # <<>>
    /\ \A w \in Workers : wpc[w] # "failed"
    /\ writes' = Append(writes, Head(result_queue))
    /\ result_queue' = Tail(result_queue)
    /\ collected' = collected + 1
    /\ UNCHANGED <<inputs, pc, i, queueCreated, workerVars, cstate, meta,
                   metaSets, sampling_rate, joined>>

\* takes the newest record of the queue instead of the oldest
Collect_newest_first ==
    /\ pc = "collect"
    /\ collected < num_utts
    /\ result_queue # <<>>
    /\ writes' = Append(writes, result_queue[Len(result_queue)])
    /\ result_queue' = SubSeq(result_queue, 1, Len(result_queue) - 1)
    /\ collected' = collected + 1
    /\ UNCHANGED <<inputs, pc, i, queueCreated, workerVars, cstate, meta,
                   metaSets, sampling_rate, joined>>

\* lines 75-77: one iteration of the collect loop; get blocks on an empty queue
Collect ==
    /\ pc = "collect"
    /\ collected < num_utts
    /\ result_queue # <<>>
    /\ writes' = Append(writes, Head(result_queue))
    /\ result_queue' = Tail(result_queue)
    /\ collected' = collected + 1
    /\ UNCHANGED <<inputs, pc, i, queueCreated, workerVars, cstate, meta,
                   metaSets, sampling_rate, joined>>

\* leaves the collect loop one record early
ComputeRate_one_early ==
    /\ pc = "collect"
    /\ collected >= num_utts - 1
    /\ IF sr # None
       THEN /\ sampling_rate' = sr
            /\ pc' = "set_meta"
       ELSE IF num_utts = 0
            THEN /\ pc' = "index_error"
                 /\ UNCHANGED sampling_rate
            ELSE /\ sampling_rate' = rates[utterance_ids[1]]
                 /\ pc' = "set_meta"
    /\ UNCHANGED <<inputs, i, queueCreated, result_queue, workerVars,
                   containerVars, collected, joined>>

\* takes the rate of the last identifier instead of the first
ComputeRate_last_item ==
    /\ pc = "collect"
    /\ collected = num_utts
    /\ IF sr # None
       THEN /\ sampling_rate' = sr
            /\ pc' = "set_meta"
       ELSE IF num_utts = 0
            THEN /\ pc' = "index_error"
                 /\ UNCHANGED sampling_rate
            ELSE /\ sampling_rate' = rates[utterance_ids[num_utts]]
                 /\ pc' = "set_meta"
    /\ UNCHANGED <<inputs, i, queueCreated, result_queue, workerVars,
                   containerVars, collected, joined>>

\* takes the rate of the first record that arrived
ComputeRate_first_arrival ==
    /\ pc = "collect"
    /\ collected = num_utts
    /\ IF sr # None
       THEN /\ sampling_rate' = sr
            /\ pc' = "set_meta"
       ELSE IF num_utts = 0
            THEN /\ pc' = "index_error"
                 /\ UNCHANGED sampling_rate
            ELSE /\ sampling_rate' = rates[writes[1][1]]
                 /\ pc' = "set_meta"
    /\ UNCHANGED <<inputs, i, queueCreated, result_queue, workerVars,
                   containerVars, collected, joined>>

\* lines 79-82: utterance_ids[0] raises IndexError on an empty corpus
ComputeRate ==
    /\ pc = "collect"
    /\ collected = num_utts
    /\ IF sr # None
       THEN /\ sampling_rate' = sr
            /\ pc' = "set_meta"
       ELSE IF num_utts = 0
            THEN /\ pc' = "index_error"
                 /\ UNCHANGED sampling_rate
            ELSE /\ sampling_rate' = rates[utterance_ids[1]]
                 /\ pc' = "set_meta"
    /\ UNCHANGED <<inputs, i, queueCreated, result_queue, workerVars,
                   containerVars, collected, joined>>

\* stores the caller's frame_size and hop_size untransformed
SetMetadata_raw ==
    /\ pc = "set_meta"
    /\ meta' = [frame_size |-> frame_size,
                hop_size |-> hop_size,
                sampling_rate |-> PyOr(sr, sampling_rate)]
    /\ metaSets' = [f \in DOMAIN metaSets |-> metaSets[f] + 1]
    /\ pc' = "close"
    /\ UNCHANGED <<inputs, i, queueCreated, result_queue, workerVars, cstate,
                   writes, sampling_rate, collected, joined>>

\* lines 84-87
SetMetadata ==
    /\ pc = "set_meta"
    /\ meta' = [frame_size |-> frame_transform(frame_size, hop_size)[1],
                hop_size |-> frame_transform(frame_size, hop_size)[2],
                sampling_rate |-> PyOr(sr, sampling_rate)]
    /\ metaSets' = [f \in DOMAIN metaSets |-> metaSets[f] + 1]
    /\ pc' = "close"
    /\ UNCHANGED <<inputs, i, queueCreated, result_queue, workerVars, cstate,
                   writes, sampling_rate, collected, joined>>

\* line 89
Close ==
    /\ pc = "close"
    /\ cstate' = "closed"
    /\ pc' = "join"
    /\ UNCHANGED <<inputs, i, queueCreated, result_queue, workerVars, writes,
                   meta, metaSets, sampling_rate, collected, joined>>

\* join returns without waiting for the worker
Join_no_wait ==
    /\ pc = "join"
    /\ joined < num_workers
    /\ joined' = joined + 1
    /\ UNCHANGED <<inputs, pc, i, queueCreated, result_queue, workerVars,
                   containerVars, sampling_rate, collected>>

\* lines 92-93: join blocks until the worker process has terminated
Join ==
    /\ pc = "join"
    /\ joined < num_workers
    /\ wpc[joined] \in {"done", "failed"}
    /\ joined' = joined + 1
    /\ UNCHANGED <<inputs, pc, i, queueCreated, result_queue, workerVars,
                   containerVars, sampling_rate, collected>>

\* line 95
Return ==
    /\ pc = "join"
    /\ joined = num_workers
    /\ pc' = "returned"
    /\ UNCHANGED <<inputs, i, queueCreated, result_queue, workerVars,
                   containerVars, sampling_rate, collected, joined>>

\* ---- worker_process_utterances_task --------------------------------------

\* validates against the rate of the first utterance of the corpus as long
\* as the worker has no baseline of its own
RateMismatch_first_item(forced, baseline, utt_sampling_rate) ==
    /\ forced = None
    /\ (IF baseline > 0 THEN baseline ELSE rates[utterance_ids[1]])
          # utt_sampling_rate

\* lines 114-115: the condition under which the worker raises
RateMismatch(forced, baseline, utt_sampling_rate) ==
    /\ forced = None
    /\ baseline > 0
    /\ baseline # utt_sampling_rate

\* checks and tracks the rate even when a rate is forced
WorkerStep_always_checks(w) ==
    /\ wpc[w] = "run"
    /\ wpos[w] < Len(wutts[w])
    /\ LET utterance_idx == wutts[w][wpos[w] + 1]
           utt_sampling_rate == rates[utterance_idx]
       IN IF wrate[w] > 0 /\ wrate[w] # utt_sampling_rate
          THEN /\ wpc' = [wpc EXCEPT ![w] = "failed"]
               /\ failedAt' = [failedAt EXCEPT ![w] = utterance_idx]
               /\ UNCHANGED <<wpos, wrate, emitted, calls, result_queue>>
          ELSE /\ wrate' = [wrate EXCEPT ![w] = utt_sampling_rate]
               /\ calls' = calls \cup {<<utterance_idx, sr>>}
               /\ result_queue' = Append(result_queue,
                     <<utterance_idx,
                       process_utterance(utterance_idx, utt_sampling_rate, sr)>>)
               /\ emitted' = [emitted EXCEPT ![w] = Append(@, utterance_idx)]
               /\ wpos' = [wpos EXCEPT ![w] = @ + 1]
               /\ UNCHANGED <<wpc, failedAt>>
    /\ UNCHANGED <<inputs, pc, i, queueCreated, wutts, containerVars,
                   sampling_rate, collected, joined>>

\* lines 110-128: one iteration of the worker's loop
WorkerStep(w) ==
    /\ wpc[w] = "run"
    /\ wpos[w] < Len(wutts[w])
    /\ LET utterance_idx == wutts[w][wpos[w] + 1]
           utt_sampling_rate == rates[utterance_idx]
       IN IF RateMismatch(sr, wrate[w], utt_sampling_rate)
          THEN /\ wpc' = [wpc EXCEPT ![w] = "failed"]
               /\ failedAt' = [failedAt EXCEPT ![w] = utterance_idx]
               /\ UNCHANGED <<wpos, wrate, emitted, calls, result_queue>>
          ELSE /\ wrate' = [wrate EXCEPT ![w] =
                              IF sr = None THEN utt_sampling_rate ELSE @]
               /\ calls' = calls \cup {<<utterance_idx, sr>>}
               /\ result_queue' = Append(result_queue,
                     <<utterance_idx,
                       process_utterance(utterance_idx, utt_sampling_rate, sr)>>)
               /\ emitted' = [emitted EXCEPT ![w] = Append(@, utterance_idx)]
               /\ wpos' = [wpos EXCEPT ![w] = @ + 1]
               /\ UNCHANGED <<wpc, failedAt>>
    /\ UNCHANGED <<inputs, pc, i, queueCreated, wutts, containerVars,
                   sampling_rate, collected, joined>>

\* line 130: the list is exhausted, the worker closes its queue end and ends
WorkerFinish(w) ==
    /\ wpc[w] = "run"
    /\ wpos[w] = Len(wutts[w])
    /\ wpc' = [wpc EXCEPT ![w] = "done"]
    /\ UNCHANGED <<inputs, pc, i, queueCreated, result_queue, wutts, wpos,
                   wrate, emitted, failedAt, calls, containerVars,
                   sampling_rate, collected, joined>>

Main ==
    \/ Validate
    \/ Spawn
    \/ OpenContainer
    \/ Collect
    \/ ComputeRate
    \/ SetMetadata
    \/ Close
    \/ Join
    \/ Return

Next ==
    \/ Main
    \/ \E w \in Workers : WorkerStep(w)
    \/ \E w \in Workers : WorkerFinish(w)

Spec == Init /\ [][Next]_vars

\* none of worker w's records is still in the queue
Flushed(w) ==
    \A p \in 1..Len(result_queue) :
        \A q \in 1..Len(emitted[w]) : result_queue[p][1] # emitted[w][q]

\* Every process is scheduled: the parent and each worker keep running while
\* they have a step to take. A worker process that has put records is only
\* sure to end once the parent has taken them (a multiprocessing queue is
\* flushed to its pipe before the process exits), so its last step is only
\* guaranteed then.
FairSpec ==
    /\ Spec
    /\ WF_vars(Main)
    /\ \A w \in 0..(MaxW - 1) :
          WF_vars(w \in Workers /\ (WorkerStep(w) \/ (WorkerFinish(w) /\ Flushed(w))))

\* The partition alone: lines 33-68 of process_corpus on larger corpora, the
\* workers not yet scheduled.
PartInit == TypeInit(PMaxN, 0..PMaxW, {1}, {None}) /\ DefaultFrames

PartNext ==
    \/ Validate
    \/ Spawn

PartSpec == PartInit /\ [][PartNext]_vars

\* The whole run on small corpora with the caller's frame_size and hop_size
\* varied.
FMaxN == 2
FrameSizes == {DefaultFrameSize, 512, 1024}
HopSizes == {DefaultHopSize, 256}

FrameInit ==
    /\ TypeInit(FMaxN, {2}, {1}, {None, 1})
    /\ frame_size \in FrameSizes
    /\ hop_size \in HopSizes

FrameSpec == FrameInit /\ [][Next]_vars

\* ---- properties ---------------------------------------------------------

Started == {w \in Workers : wpc[w] # "unstarted"}

RECURSIVE ConcatRanges(_)
\* the lists handed to workers 0..k-1, one after the other
ConcatRanges(k) == IF k = 0 THEN <<>> ELSE ConcatRanges(k - 1) \o wutts[k - 1]

\* the (worker, position) places at which identifier id was handed out
PlacesOf(id) ==
    {<<w, p>> \in Workers \X (1..num_utts) :
        p <= Len(wutts[w]) /\ wutts[w][p] = id}

IsContiguous(seq) == \A p \in 1..(Len(seq) - 1) : seq[p + 1] = seq[p] + 1

SpawnLoopDone == num_workers >= 2 /\ pc = "spawn" /\ i = num_workers

\* C1: once the spawn loop has run, exactly W workers are started, each
\* identifier is in exactly one worker's list, every list is contiguous and
\* the lists in worker order concatenate to the identifier sequence; while
\* the loop runs, exactly the first i workers are started.
C1_Partition ==
    /\ (num_workers >= 2 /\ pc = "spawn") =>
          /\ Started = 0..(i - 1)
          /\ \A w \in Workers : IsContiguous(wutts[w])
    /\ SpawnLoopDone =>
          /\ Cardinality(Started) = num_workers
          /\ \A id \in 1..num_utts : Cardinality(PlacesOf(id)) = 1
          /\ ConcatRanges(num_workers) = utterance_ids

C1_Witness ==
    /\ SpawnLoopDone
    /\ num_utts > num_workers
    /\ num_utts % num_workers # 0

\* the identifiers at 0-based positions [a, b)
IdsAt(a, b) == [p \in 1..(b - a) |-> a + p]

\* C2: worker w < W-1 holds the identifiers at positions
\* [w*floor(N/W), (w+1)*floor(N/W)), worker W-1 those at
\* [(W-1)*floor(N/W), N); the sizes are floor(N/W) and floor(N/W) + N mod W.
C2_RangeFormula ==
    \A w \in Started :
        LET k == num_utts \div num_workers
        IN IF w < num_workers - 1
           THEN /\ wutts[w] = IdsAt(w * k, (w + 1) * k)
                /\ Len(wutts[w]) = k
           ELSE /\ wutts[w] = IdsAt((num_workers - 1) * k, num_utts)
                /\ Len(wutts[w]) = k + (num_utts % num_workers)

C2_Witness ==
    /\ SpawnLoopDone
    /\ num_utts = 10
    /\ num_workers = 3
    /\ Len(wutts[0]) = 3
    /\ Len(wutts[1]) = 3
    /\ Len(wutts[2]) = 4

\* C3: with fewer than 2 workers process_corpus only raises the
\* configuration error: no worker is started, no queue is created, the
\* container is never created and nothing is put or written.
C3_ConfigError ==
    num_workers < 2 =>
        /\ pc \in {"validate", "config_error"}
        /\ Started = {}
        /\ ~queueCreated
        /\ result_queue = <<>>
        /\ cstate = "none"
        /\ writes = <<>>
        /\ calls = {}
        /\ \A f \in DOMAIN metaSets : metaSets[f] = 0

C3_Witness == num_workers = 1 /\ num_utts > 0 /\ pc = "config_error"

\* the positions in writes at which identifier id was set
WritesOf(id) == {p \in 1..Len(writes) : writes[p][1] = id}

\* C4: when process_corpus has returned, the collector took exactly N
\* records and every identifier of the corpus was set exactly once, none
\* from outside the corpus.
C4_OneEntryPerId ==
    pc = "returned" =>
        /\ collected = num_utts
        /\ Len(writes) = num_utts
        /\ \A id \in 1..num_utts : Cardinality(WritesOf(id)) = 1
        /\ \A p \in 1..Len(writes) : writes[p][1] \in 1..num_utts

C4_Witness ==
    /\ pc = "returned"
    /\ num_utts = MaxN
    /\ writes[1][1] # 1

MetaFields == DOMAIN metaSets

C5_Inv ==
    /\ collected > 0 => cstate # "none"
    /\ \A f \in MetaFields : metaSets[f] <= 1
    /\ (\E f \in MetaFields : metaSets[f] > 0) =>
          /\ Len(writes) = num_utts
          /\ cstate # "none"
    /\ cstate = "closed" => \A f \in MetaFields : metaSets[f] = 1

C5_Step ==
    /\ cstate' # cstate =>
          <<cstate, cstate'>> \in {<<"none", "open">>, <<"open", "closed">>}
    /\ (writes' # writes \/ collected' # collected) =>
          /\ cstate = "open"
          /\ cstate' = "open"
          /\ \A f \in MetaFields : metaSets[f] = 0
    /\ (metaSets' # metaSets \/ meta' # meta) =>
          /\ cstate = "open"
          /\ cstate' = "open"
          /\ Len(writes) = num_utts
          /\ \A f \in MetaFields : metaSets[f] = 0 /\ metaSets'[f] = 1

\* C5: the container goes none -> open -> closed only; records are taken
\* and set only while it is open and no metadata is set yet; the three
\* metadata fields are set once, while it is open and after all N records
\* are written; a closed container has all three set and is not touched.
C5_Lifecycle == []C5_Inv /\ [][C5_Step]_vars

C5_Witness ==
    /\ cstate = "closed"
    /\ num_utts = MaxN
    /\ Len(writes) = MaxN

\* C6: when process_corpus has returned, the container's sampling_rate is
\* the forced rate if there is one, else the rate of the first identifier.
C6_FinalRate ==
    pc = "returned" =>
        \/ sr # None /\ meta.sampling_rate = sr
        \/ /\ sr = None
           /\ num_utts > 0
           /\ meta.sampling_rate = rates[utterance_ids[1]]

C6_Witness ==
    /\ pc = "returned"
    /\ sr = None
    /\ num_utts = MaxN
    /\ \A id \in 1..num_utts : rates[id] = MaxRate
    /\ meta.sampling_rate = MaxRate

WorkerFailed == \E w \in Workers : wpc[w] = "failed"

\* the positions of worker w's list whose rate differs from its first item's
Offending(w) ==
    {p \in 2..Len(wutts[w]) : rates[wutts[w][p]] # rates[wutts[w][1]]}

SetMin(S) == CHOOSE x \in S : \A y \in S : x <= y

\* C7: with no forced rate a worker fails exactly at the first item of its
\* list whose rate differs from the rate of the list's first item, having
\* emitted the items before it and nothing from it on.
C7_Claim ==
    sr = None =>
        \A w \in Started :
            IF Offending(w) = {}
            THEN wpc[w] # "failed"
            ELSE LET q == SetMin(Offending(w))
                 IN /\ Len(emitted[w]) <= q - 1
                    /\ wpc[w] # "done"
                    /\ wpc[w] = "failed" =>
                          /\ failedAt[w] = wutts[w][q]
                          /\ emitted[w] = SubSeq(wutts[w], 1, q - 1)

\* C8: with a forced rate no worker fails or establishes a baseline, every
\* process_utterance call gets the forced rate, and a finished worker has
\* emitted one record per identifier of its list, in order.
C8_Forced ==
    sr # None =>
        /\ \A w \in Workers :
              /\ wpc[w] # "failed"
              /\ failedAt[w] = 0
              /\ wrate[w] = NoRateYet
              /\ wpc[w] = "done" => emitted[w] = wutts[w]
        /\ \A c \in calls : c[2] = sr

C8_Witness ==
    /\ sr # None
    /\ \E w \in Workers :
          /\ wpc[w] = "done"
          /\ Len(emitted[w]) = 2
          /\ rates[emitted[w][1]] > 0
          /\ rates[emitted[w][2]] > 0
          /\ rates[emitted[w][1]] # rates[emitted[w][2]]

MainRaised == pc \in {"config_error", "index_error"}

\* C9: once a worker has failed (so fewer than N records are ever put),
\* process_corpus eventually terminates with an error.
C9_Claim == WorkerFailed ~> MainRaised

\* C10: once the container is open and a worker has failed or finalization
\* has raised, the container is eventually closed.
C10_Claim ==
    (cstate = "open" /\ (WorkerFailed \/ pc = "index_error")) ~> (cstate = "closed")

Terminated(w) == wpc[w] \in {"done", "failed"}

AllMetaSet == \A f \in MetaFields : metaSets[f] = 1

C11_Inv ==
    /\ (pc = "join" \/ joined > 0) =>
          /\ cstate = "closed"
          /\ AllMetaSet
          /\ Len(writes) = num_utts
    /\ \A w \in Workers : w < joined => Terminated(w)
    /\ pc = "returned" =>
          /\ cstate = "closed"
          /\ AllMetaSet
          /\ Len(writes) = num_utts
          /\ joined = num_workers
          /\ \A w \in Workers : Terminated(w)

C11_Step ==
    /\ joined' # joined => cstate = "closed" /\ Terminated(joined)
    /\ (pc # "returned" /\ pc' = "returned") =>
          /\ cstate = "closed"
          /\ joined = num_workers

\* C11: the order is N records written, metadata set, container closed,
\* workers joined one by one (each only once it has terminated), return.
C11_ReturnOrder == []C11_Inv /\ [][C11_Step]_vars

C11_Witness ==
    /\ pc = "returned"
    /\ num_workers = MaxW
    /\ num_utts = MaxN
    /\ joined = MaxW

SetMax(S) == CHOOSE x \in S : \A y \in S : x >= y

\* the keyed content of the container: the last set of a key wins
Keys == {writes[p][1] : p \in 1..Len(writes)}
EntryOf(id) == writes[SetMax(WritesOf(id))][2]

\* C12: the final content of the container is a function of the inputs
\* alone (the corpus, sr and the frame parameters), whatever the
\* interleaving and the order in which the records arrived.
C12_FinalStateDetermined ==
    pc = "returned" =>
        /\ Keys = 1..num_utts
        /\ \A id \in Keys : EntryOf(id) = process_utterance(id, rates[id], sr)
        /\ meta = [frame_size |-> frame_transform(frame_size, hop_size)[1],
                   hop_size |-> frame_transform(frame_size, hop_size)[2],
                   sampling_rate |-> IF sr # None THEN sr
                                     ELSE rates[utterance_ids[1]]]

C12_Witness ==
    /\ pc = "returned"
    /\ num_utts >= 2
    /\ writes[1][1] = num_utts
    /\ writes[num_utts][1] = 1

\* C13: when process_corpus has returned, the container's frame_size and
\* hop_size are the outputs of frame_transform on the caller's frame_size
\* and hop_size: a function of those two arguments alone.
C13_FrameMetadata ==
    pc = "returned" =>
        /\ meta.frame_size = frame_transform(frame_size, hop_size)[1]
        /\ meta.hop_size = frame_transform(frame_size, hop_size)[2]

C13_Witness ==
    /\ pc = "returned"
    /\ num_utts = FMaxN
    /\ frame_size = 1024
    /\ hop_size = 256
    /\ meta.frame_size # frame_size
    /\ meta.hop_size # hop_size

\* the list worker w is handed, as a function of the inputs
InputRange(w) == worker_utts(utterance_ids, num_workers, w)

RangeUniform(w) ==
    \A p, q \in 1..Len(InputRange(w)) :
        rates[InputRange(w)[p]] = rates[InputRange(w)[q]]

AllRangesUniform == \A w \in Workers : RangeUniform(w)

AllDone == \A w \in Workers : wpc[w] = "done"

\* C14: with W >= 2, N >= 1 and either a forced rate or every worker's list
\* uniform in rate, process_corpus eventually returns, with every worker
\* ended and the queue empty.
C14_Terminates ==
    (/\ pc = "validate"
     /\ num_workers >= 2
     /\ num_utts >= 1
     /\ (sr # None \/ AllRangesUniform))
        ~> (pc = "returned" /\ AllDone /\ result_queue = <<>>)

C14_Witness ==
    /\ pc = "returned"
    /\ AllDone
    /\ num_workers = MaxW
    /\ num_utts = MaxN
    /\ sr = None
    /\ AllRangesUniform
    /\ \A id \in 1..num_utts : rates[id] > 0

\* C15: with fewer utterances than workers (W >= 2) the run is legal with
\* or without a forced rate: nothing raises in the parent, a worker with an
\* empty list emits nothing and does not fail, and a returned run has N
\* entries, its metadata set and the container closed.
C15_Claim ==
    (num_workers >= 2 /\ num_utts < num_workers) =>
        /\ pc # "index_error"
        /\ \A w \in Started :
              wutts[w] = <<>> => (wpc[w] # "failed" /\ emitted[w] = <<>>)
        /\ pc = "returned" =>
              /\ Len(writes) = num_utts
              /\ AllMetaSet
              /\ cstate = "closed"

C16_Pre ==
    /\ sr = None
    /\ num_workers >= 2
    /\ AllRangesUniform
    /\ \E id \in 1..num_utts : rates[id] # rates[utterance_ids[1]]

C16_Safe ==
    /\ ~WorkerFailed
    /\ ~MainRaised
    /\ pc = "returned" =>
          /\ Keys = 1..num_utts
          /\ meta.sampling_rate = rates[utterance_ids[1]]
          /\ \E id \in Keys : rates[id] # meta.sampling_rate

\* C16: with no forced rate, every worker's list uniform and two lists of
\* different rates, no worker fails and nothing raises; process_corpus
\* eventually returns with every identifier written and the rate of the
\* first identifier recorded, although some written item has another rate.
C16_LocalCheckOnly ==
    /\ [](C16_Pre => C16_Safe)
    /\ (C16_Pre /\ pc = "validate") ~> (pc = "returned")

C16_Witness ==
    /\ pc = "returned"
    /\ C16_Pre
    /\ num_utts = MaxN
    /\ rates[1] > 0
    /\ rates[num_utts] > 0
    /\ rates[num_utts] # meta.sampling_rate

\* every record emitted so far by any worker has been written
AllEmittedWritten ==
    \A w \in Workers :
        \A q \in 1..Len(emitted[w]) : emitted[w][q] \in Keys

\* every worker that has not failed and whose list is uniform in rate has
\* emitted its whole list
ConsistentSiblingsEmitted ==
    \A w \in Workers :
        (wpc[w] # "failed" /\ RangeUniform(w)) => emitted[w] = InputRange(w)

\* C17: once a worker has failed, every other worker whose list is
\* consistent still emits its whole list, and every record emitted by any
\* worker, the failed one included, is eventually written.
C17_SiblingsContinue ==
    WorkerFailed ~> (ConsistentSiblingsEmitted /\ AllEmittedWritten)

C17_Witness ==
    /\ WorkerFailed
    /\ ConsistentSiblingsEmitted
    /\ AllEmittedWritten
    /\ \E w \in Workers : wpc[w] = "failed" /\ Len(emitted[w]) >= 1
    /\ \E w \in Workers : wpc[w] = "done" /\ Len(emitted[w]) >= 1

IsPrefix(a, b) == Len(a) <= Len(b) /\ a = SubSeq(b, 1, Len(a))

InList(seq, x) == \E p \in 1..Len(seq) : seq[p] = x

\* the identifiers of the set calls, in call order
WriteIds == [p \in 1..Len(writes) |-> writes[p][1]]

\* the set calls that carry a record of worker w, in call order
WritesFrom(w) == SelectSeq(WriteIds, LAMBDA x : InList(wutts[w], x))

\* C18: a worker emits its records in the order of its list, and the set
\* calls for one worker's records follow the order in which it emitted them.
C18_FifoPerWorker ==
    \A w \in Started :
        /\ IsPrefix(emitted[w], wutts[w])
        /\ IsPrefix(WritesFrom(w), emitted[w])

C18_Witness ==
    /\ num_workers = 2
    /\ num_utts = 3
    /\ WriteIds = <<2, 1, 3>>

QueuePlaces(id) == {p \in 1..Len(result_queue) : result_queue[p][1] = id}

Unprocessed(id) == \A w \in Workers : ~InList(emitted[w], id)

\* C19: with W >= 2 every identifier is in exactly one place: not yet
\* processed, in the queue, or written; written plus queued never exceeds
\* N, the collector takes at most N records, and on return the queue is
\* empty.
C19_Conservation ==
    num_workers >= 2 =>
        /\ \A id \in 1..num_utts :
              Cardinality(QueuePlaces(id)) + Cardinality(WritesOf(id))
                  + (IF Unprocessed(id) THEN 1 ELSE 0) = 1
        /\ Len(writes) + Len(result_queue) <= num_utts
        /\ collected = Len(writes)
        /\ collected <= num_utts
        /\ pc = "returned" => result_queue = <<>>

C19_Witness ==
    /\ num_workers >= 2
    /\ num_utts = 3
    /\ \E a, b, c \in 1..num_utts :
          /\ Unprocessed(a)
          /\ QueuePlaces(b) # {}
          /\ WritesOf(c) # {}

====
